---------------------------- MODULE Spec2Model ----------------------------
(***************************************************************************)
(* SIDLE (src/main/main.cc): a command-line tool that reads a JSON image   *)
(* description and writes one TGA file per (image, resolution) pair.       *)
(*                                                                         *)
(* Conventions of the model                                                *)
(*  - a character is its ASCII code, a colour text is a sequence of codes; *)
(*  - a JSON object is a record with a field "bad": the set of keys whose  *)
(*    at(key).get<T>() throws json::exception (key missing or mistyped);   *)
(*  - a double read from the description is a multiple of 1/Den, held as   *)
(*    its numerator n; round(n/Den * k) is computed on the integers n, k   *)
(*    (exact in binary64 for Den a power of two, and never within an ulp   *)
(*    of a tie otherwise);                                                 *)
(*  - an int is a 32-bit two's complement value;                           *)
(*  - a size_t value v is held as v when v < 2^63 and as v - 2^64          *)
(*    otherwise (its 64-bit two's complement reading), compared unsigned   *)
(*    by ULess.                                                            *)
(***************************************************************************)
EXTENDS Integers, Sequences, FiniteSets, TLC

----------------------------------------------------------------------------
(* Bounds of the model *)

\* longest colour text drawn from the whole alphabet
MaxLen == 4
\* most resolutions in a description
MaxRes == 2
\* most images in a description
MaxImages == 2
\* most elements in an image
MaxElems == 2
\* the doubles of a description are the multiples of 1 / Den
Den == 4

----------------------------------------------------------------------------
(* Program constants *)

\* '#', the optional prefix of a colour text
Hash == 35
\* '0' .. '9'
Ch0 == 48
Ch9 == 57
\* 'a' .. 'f'
Cha == 97
Chf == 102
\* 'A' .. 'F'
ChA == 65
ChF == 70
\* largest value of int (struct Resolution, width, height)
IntMax == 2147483647
IntMin == -IntMax - 1

----------------------------------------------------------------------------
(* Integer arithmetic as the machine does it *)

Min(a, b) == IF a < b THEN a ELSE b

\* a + b in 32-bit two's complement, without leaving the 32-bit range
AddWrap(a, b) ==
    IF a >= 0 /\ b >= 0
    THEN (IF b > IntMax - a THEN (a + IntMin) + (b + IntMin) ELSE a + b)
    ELSE IF a < 0 /\ b < 0
    THEN (IF b < IntMin - a THEN (a - IntMin) + (b - IntMin) ELSE a + b)
    ELSE a + b

RECURSIVE MulWrapNat(_, _)
\* a * b in 32-bit two's complement, b >= 0 (shift and add)
MulWrapNat(a, b) ==
    IF b = 0 THEN 0
    ELSE LET rest == MulWrapNat(AddWrap(a, a), b \div 2)
         IN  IF b % 2 = 1 THEN AddWrap(a, rest) ELSE rest

NegWrap(a) == IF a = IntMin THEN IntMin ELSE 0 - a

\* a * b in 32-bit two's complement
MulWrap(a, b) ==
    IF b >= 0 THEN MulWrapNat(a, b)
    ELSE IF b = IntMin THEN (IF a % 2 = 0 THEN 0 ELSE IntMin)
    ELSE MulWrapNat(NegWrap(a), 0 - b)

Abs(a) == IF a < 0 THEN 0 - a ELSE a

\* whether the int product a * b overflows (signed overflow: undefined)
MulOverflows(a, b) ==
    /\ a # 0
    /\ b # 0
    /\ a > IntMin
    /\ b > IntMin
    /\ Abs(a) > IntMax \div Abs(b)

\* unsigned comparison of two size_t values
ULess(a, b) ==
    IF (a < 0) = (b < 0) THEN a < b ELSE b < 0

\* round(n / Den * k): round half away from zero of the exact product
Round(n, k) ==
    LET p == n * k
    IN  IF p >= 0 THEN (2 * p + Den) \div (2 * Den)
        ELSE 0 - ((2 * (0 - p) + Den) \div (2 * Den))

----------------------------------------------------------------------------
(* parseHexit and parseColour *)

IsDigit(c) == Ch0 <= c /\ c <= Ch9
IsLower(c) == Cha <= c /\ c <= Chf

\* the characters of "0123456789abcdefABCDEF"
HexChars == (Ch0 .. Ch9) \cup (Cha .. Chf) \cup (ChA .. ChF)

\* uint8_t parseHexit(char c): the last branch takes every other character
parseHexit(c) ==
    IF IsDigit(c) THEN c - Ch0
    ELSE IF IsLower(c) THEN c - Cha + 10
    ELSE (c - ChA + 10) % 256

\* static_cast<uint8_t>(h * 0x11)
Dup(h) == (h * 17) % 256
\* static_cast<uint8_t>(h * 0x10 + l)
Pair(h, l) == (h * 16 + l) % 256

\* s.front() == '#' on a non-empty s, then s.substr(1)
StripHash(s) == IF Head(s) = Hash THEN Tail(s) ELSE s

\* s.find_first_not_of("0123456789abcdefABCDEF") != string::npos
HasNonHex(s) == \E k \in 1 .. Len(s) : s[k] \notin HexChars

\* the body of parseColour after the prefix is removed:
\* [ok |-> FALSE] is throw runtime_error("invalid colour")
ParseDigits(s) ==
    IF HasNonHex(s) THEN [ok |-> FALSE, colour |-> <<0, 0, 0, 0>>]
    ELSE IF Len(s) = 3
    THEN [ok |-> TRUE,
          colour |-> <<Dup(parseHexit(s[1])), Dup(parseHexit(s[2])),
                       Dup(parseHexit(s[3])), 255>>]
    ELSE IF Len(s) = 4
    THEN [ok |-> TRUE,
          colour |-> <<Dup(parseHexit(s[1])), Dup(parseHexit(s[2])),
                       Dup(parseHexit(s[3])), Dup(parseHexit(s[4]))>>]
    ELSE IF Len(s) = 6
    THEN [ok |-> TRUE,
          colour |-> <<Pair(parseHexit(s[1]), parseHexit(s[2])),
                       Pair(parseHexit(s[3]), parseHexit(s[4])),
                       Pair(parseHexit(s[5]), parseHexit(s[6])), 255>>]
    ELSE IF Len(s) = 8
    THEN [ok |-> TRUE,
          colour |-> <<Pair(parseHexit(s[1]), parseHexit(s[2])),
                       Pair(parseHexit(s[3]), parseHexit(s[4])),
                       Pair(parseHexit(s[5]), parseHexit(s[6])),
                       Pair(parseHexit(s[7]), parseHexit(s[8]))>>]
    ELSE [ok |-> FALSE, colour |-> <<0, 0, 0, 0>>]

\* The outcomes of parseColour(s). s.front() on an empty string is undefined
\* behaviour: the build either reads the terminating '\0' (not '#', so the
\* text stays empty and the length test throws), or, with the library's
\* assertions compiled in, aborts the process.
parseColour(s) ==
    IF s = <<>>
    THEN {[kind |-> "throw", colour |-> <<0, 0, 0, 0>>],
          [kind |-> "abort", colour |-> <<0, 0, 0, 0>>]}
    ELSE LET r == ParseDigits(StripHash(s))
         IN  {[kind |-> IF r.ok THEN "value" ELSE "throw", colour |-> r.colour]}

----------------------------------------------------------------------------
(* The description file and the command line *)

\* a rectangle element; x, y, width, height are numerators over Den
Rect(x, y, w, h, c) ==
    [type |-> "rectangle", x |-> x, y |-> y, width |-> w, height |-> h,
     colour |-> c, bad |-> {}]

\* an element of another type
Shape(t) ==
    [type |-> t, x |-> 0, y |-> 0, width |-> Den, height |-> Den,
     colour |-> <<Hash, Chf, Chf, Chf>>, bad |-> {}]

\* an image; width and height are numerators over Den
Image(n, w, h, bg, els) ==
    [name |-> n, width |-> w, height |-> h, background |-> bg,
     elements |-> els, bad |-> {}]

\* one entry [width, height] of "resolutions"
Res(w, h) == [width |-> w, height |-> h, bad |-> {}]

Description(res, imgs) ==
    [outputPath |-> "out", resolutions |-> res, images |-> imgs, bad |-> {}]

\* the object with at(k) throwing
Without(obj, k) == [obj EXCEPT !.bad = {k}]

\* argv and the state of the named file
CommandLine(argc, readable, wellFormed, file) ==
    [argc |-> argc, readable |-> readable, wellFormed |-> wellFormed,
     file |-> file]

Run(file) == CommandLine(2, TRUE, TRUE, file)

SeqsUpTo(S, n) == UNION {[1 .. k -> S] : k \in 0 .. n}

----------------------------------------------------------------------------
(* Colour texts *)

Black == <<Hash, Ch0, Ch0, Ch0>>
White == <<Hash, Chf, ChF, Chf, ChF, Chf, ChF>>
Red == <<Chf, Ch0, Ch0>>
\* "#0f08": green with alpha 0x88
Glass == <<Hash, Ch0, Chf, Ch0, Ch0 + 8>>
\* "#ggg"
NoColour == <<Hash, Chf + 1, Chf + 1, Chf + 1>>

\* '#', hexits of the three kinds, and characters next to their ranges
Alphabet == {Hash, Ch0, Ch9, Cha, ChF, Chf + 1, ChF + 1}

\* hexits for the long texts: a digit, a lower case and an upper case letter
LongAlphabet == {Ch0 + 3, Cha + 2, ChA + 4}

\* every text of at most MaxLen characters of Alphabet
ShortTexts == SeqsUpTo(Alphabet, MaxLen)

\* the hex texts of 5 to 8 characters of LongAlphabet, bare and with '#'
LongTexts ==
    LET hex == UNION {[1 .. k -> LongAlphabet] : k \in 5 .. 8}
    IN  hex \cup {<<Hash>> \o t : t \in hex}

\* texts of 6 to 9 characters with one character that is no hexit
SpoiltTexts ==
    LET base == [k \in 1 .. 9 |-> Cha + 2]
    IN  {[SubSeq(base, 1, n) EXCEPT ![k] = c] :
            n \in 6 .. 9, k \in 1 .. 6, c \in {Hash, Chf + 1, Ch0 - 1}}

ColourTexts == ShortTexts \cup LongTexts \cup SpoiltTexts

----------------------------------------------------------------------------
(* The runs of the model, by what they exercise *)

Plain == Image("a", Den, Den, Black, <<>>)
Boxed == Image("b", Den, Den, White, <<Rect(0, 0, 2, 2, Red)>>)

\* the command line, the file and the top-level keys
HeaderRuns ==
    LET d == Description(<<Res(2, 2)>>, <<Plain>>)
    IN  {CommandLine(n, r, w, d) : n \in 1 .. 3, r \in BOOLEAN, w \in BOOLEAN}
        \cup {Run(Without(d, k)) : k \in {"outputPath", "resolutions", "images"}}
        \cup {Run(Description(rs, <<Plain>>)) :
                rs \in SeqsUpTo({Res(2, 2), Without(Res(2, 2), 0),
                                 Without(Res(2, 2), 1)}, MaxRes)}

\* images with and without violations, over one or more resolutions
Gallery ==
    {Plain, Boxed,
     Image("c", Den, Den, Black, <<Rect(0, 0, 2, 2, Red), Shape("ellipse")>>),
     Image("d", Den, Den, Black, <<Shape("ellipse"), Rect(0, 0, 2, 2, Red)>>),
     Image("e", Den, Den, NoColour, <<>>),
     Image("f", Den, Den, Black, <<Rect(0, 0, 2, 2, NoColour)>>),
     Without(Plain, "name")}

PipelineRuns ==
    {Run(Description(rs, is)) :
        rs \in SeqsUpTo({Res(2, 2), Res(4, 2)}, MaxRes),
        is \in SeqsUpTo(Gallery, MaxImages)}

\* every key of an image and of an element missing in turn
SchemaRuns ==
    {Run(Description(<<Res(2, 2)>>, <<Without(Boxed, k)>>)) :
        k \in {"name", "width", "height", "background", "elements"}}
    \cup {Run(Description(<<Res(2, 2)>>,
              <<Image("b", Den, Den, Black,
                      <<Without(Rect(0, 0, 2, 2, Red), k)>>)>>)) :
        k \in {"type", "colour", "x", "y", "width", "height"}}

\* one image whose background is any colour text
ColourRuns ==
    {Run(Description(<<Res(1, 1)>>, <<Image("a", Den, Den, t, <<>>)>>)) :
        t \in ColourTexts}

\* one rectangle of any geometry, on a canvas 4 wide and 2 high
Starts == {0 - 1, 0, 1, 3, 5}
Sizes == {0 - 6, 0 - 2, 0, 1, 2, 4, 6}

GeometryRuns ==
    {Run(Description(<<Res(4, 2)>>,
         <<Image("a", Den, Den, Black, <<Rect(x, y, w, h, White)>>)>>)) :
        x \in Starts, y \in Starts, w \in Sizes, h \in Sizes}

\* overlapping rectangles in every order, on a canvas 4 wide and 4 high
Palette ==
    {Rect(0, 0, 2, 2, Red), Rect(1, 1, 2, 2, White), Rect(0, 1, 4, 1, Glass),
     Rect(2, 0, 4, 4, Black), Rect(3, 3, 0 - 1, 1, Red), Rect(0, 0, 4, 4, Glass)}

PainterRuns ==
    {Run(Description(<<Res(4, 4)>>, <<Image("a", Den, Den, White, es)>>)) :
        es \in SeqsUpTo(Palette, MaxElems)}

\* canvas sizes: small ones of every sign, and ones whose byte count
\* does not fit an int
SmallDims == {0 - 2, 0, 1, 2, 3}
Scales == {1, 2, Den, Den + 2}

SizeRuns ==
    {Run(Description(<<Res(W, H)>>, <<Image("a", w, h, Black, <<>>)>>)) :
        W \in SmallDims, H \in SmallDims, w \in Scales, h \in Scales}
    \cup {Run(Description(<<Res(W, W)>>, <<Image("a", Den, Den, Black, es)>>)) :
            W \in {32768, 65536}, es \in {<<>>, <<Rect(0, 0, 2, 2, Red)>>}}
    \cup {Run(Description(rs, <<i>>)) :
            rs \in SeqsUpTo({Res(2, 0), Res(0 - 2, 0 - 2), Res(2, 2)}, MaxRes),
            i \in {Plain, Boxed}}

Runs ==
    HeaderRuns \cup PipelineRuns \cup SchemaRuns \cup ColourRuns
    \cup GeometryRuns \cup PainterRuns \cup SizeRuns

----------------------------------------------------------------------------
(* The state of main *)

VARIABLES
    input,            \* argc, argv[1] and the file it names
    pc,               \* the statement main is at (where it stopped, once exit is set)
    exit,             \* "running", main's return value, or the signal that ended it
    stderr,           \* the messages written to cerr
    resolutions,      \* vector<Resolution> resolutions
    img,              \* position of the outer loop (images)
    res,              \* position of the inner loop (resolutions)
    dirs,             \* the resolution folders created
    width,            \* int width
    height,           \* int height
    allocBytes,       \* length of the array make_unique returned
    output,           \* the array, pixel by pixel
    backgroundColour, \* colour backgroundColour
    el,               \* position of the loop over the elements
    rects,            \* startX, endX, startY, endY of the elements painted
    written           \* the calls of stbi_write_tga, in order

vars ==
    <<input, pc, exit, stderr, resolutions, img, res, dirs, width, height,
      allocBytes, output, backgroundColour, el, rects, written>>

\* the locals of one iteration of the inner loop
canvas == <<width, height, allocBytes, output, backgroundColour, el, rects>>

file == input.file
image == file.images[img]
resolution == resolutions[res]

\* the builds, by what their conversion instructions give out of range:
\* "x86-64" truncates a negative double to size_t modulo 2^64 and gives
\* INT_MIN for a double no int holds; "aarch64" saturates both
Builds == {"x86-64", "aarch64"}

Init ==
    /\ input \in Runs
    /\ pc = "main"
    /\ exit = "running"
    /\ stderr = <<>>
    /\ resolutions = <<>>
    /\ img = 1
    /\ res = 1
    /\ dirs = {}
    /\ width = 0
    /\ height = 0
    /\ allocBytes = 0
    /\ output = <<>>
    /\ backgroundColour = <<0, 0, 0, 0>>
    /\ el = 1
    /\ rects = <<>>
    /\ written = <<>>

----------------------------------------------------------------------------
(* How main ends *)

\* return code, after msg on cerr (the usage and file errors, and the
\* parse_error handler)
Return(code, msg) ==
    /\ exit' = code
    /\ stderr' = Append(stderr, msg)

\* catch (json::exception const &e): the message, then main's return 0
CatchJson ==
    /\ exit' = "0"
    /\ stderr' = Append(stderr, "error: invalid description")

\* catch (runtime_error const &e): the message, then main's return 0
CatchRuntime(what) ==
    /\ exit' = "0"
    /\ stderr' = Append(stderr, "error: " \o what)

\* an exception no handler of main catches (bad_alloc), a failed library
\* assertion or a trapped overflow: abort()
Abort ==
    /\ exit' = "SIGABRT"
    /\ stderr' = Append(stderr, "terminate")

\* a write or a read that runs off the array into unmapped memory
Crash ==
    /\ exit' = "SIGSEGV"
    /\ stderr' = stderr

\* main runs off the end of the loops
Finish ==
    /\ exit' = "0"
    /\ stderr' = stderr

----------------------------------------------------------------------------
(* main, up to the loops *)

\* if (argc != 2)
UsageError ==
    /\ pc = "main" /\ exit = "running"
    /\ input.argc # 2
    /\ Return("1", "usage")
    /\ UNCHANGED <<input, pc, resolutions, img, res, dirs, canvas, written>>

\* if (!fin.good())
OpenError ==
    /\ pc = "main" /\ exit = "running"
    /\ input.argc = 2
    /\ ~input.readable
    /\ Return("1", "error: could not open")
    /\ UNCHANGED <<input, pc, resolutions, img, res, dirs, canvas, written>>

\* json::parse(fin) throws parse_error
ParseError ==
    /\ pc = "main" /\ exit = "running"
    /\ input.argc = 2
    /\ input.readable
    /\ ~input.wellFormed
    /\ Return("1", "error: could not parse")
    /\ UNCHANGED <<input, pc, resolutions, img, res, dirs, canvas, written>>

\* the entries of "resolutions" read in order: the first that throws ends it
ResolutionsThrow(rs) == \E k \in 1 .. Len(rs) : rs[k].bad # {}

\* the vector the first loop builds
ReadResolutions(rs) ==
    [k \in 1 .. Len(rs) |-> [width |-> rs[k].width, height |-> rs[k].height]]

\* the loops' first position: <<img, res>>, or <<0, 0>> when no body runs
FirstPair(nImages, nRes) ==
    IF nImages = 0 \/ nRes = 0 THEN <<0, 0>> ELSE <<1, 1>>

\* NextPair with the loops exchanged: images inside, resolutions outside
NextPairResolutionsOuter(i, r, nImages, nRes) ==
    IF i < nImages THEN <<i + 1, r>>
    ELSE IF r < nRes THEN <<1, r + 1>>
    ELSE <<0, 0>>

\* the position after <<i, r>>: resolutions inside, images outside
NextPair(i, r, nImages, nRes) ==
    IF r < nRes THEN <<i, r + 1>>
    ELSE IF i < nImages THEN <<i + 1, 1>>
    ELSE <<0, 0>>

\* outputPath, the resolutions, and file.at("images") of the outer loop
ReadDescription ==
    /\ pc = "main" /\ exit = "running"
    /\ input.argc = 2
    /\ input.readable
    /\ input.wellFormed
    /\ IF \/ "outputPath" \in file.bad
          \/ "resolutions" \in file.bad
          \/ ResolutionsThrow(file.resolutions)
       THEN /\ CatchJson
            /\ UNCHANGED <<pc, resolutions, img, res>>
       ELSE /\ resolutions' = ReadResolutions(file.resolutions)
            /\ IF "images" \in file.bad
               THEN /\ CatchJson
                    /\ UNCHANGED <<pc, img, res>>
               ELSE LET first == FirstPair(Len(file.images),
                                           Len(file.resolutions))
                    IN  IF first = <<0, 0>>
                        THEN /\ Finish
                             /\ pc' = "end"
                             /\ UNCHANGED <<img, res>>
                        ELSE /\ pc' = "folder"
                             /\ img' = first[1]
                             /\ res' = first[2]
                             /\ UNCHANGED <<exit, stderr>>
    /\ UNCHANGED <<input, dirs, canvas, written>>

----------------------------------------------------------------------------
(* One iteration of the inner loop *)

\* "res" + to_string(width) + "x" + to_string(height), under outputFolder
Folder(r) == <<"res", r.width, r.height>>

\* create_directories(resolutionFolder), then the test of status(): the
\* file system makes the directory, or create_directories throws
\* filesystem_error (a runtime_error), or what is there is no directory
MakeFolder ==
    /\ pc = "folder" /\ exit = "running"
    /\ \E outcome \in {"directory", "throws", "other"} :
          IF outcome = "directory"
          THEN /\ dirs' = dirs \cup {Folder(resolution)}
               /\ pc' = "alloc"
               /\ UNCHANGED <<exit, stderr>>
          ELSE /\ CatchRuntime(IF outcome = "throws"
                               THEN "filesystem error"
                               ELSE "could not create output folder")
               /\ UNCHANGED <<dirs, pc>>
    /\ UNCHANGED <<input, resolutions, img, res, canvas, written>>

\* the array make_unique<uint8_t[]>(n) returns: n bytes, all zero
ZeroArray(n) == [k \in 0 .. (n \div 4) - 1 |-> <<0, 0, 0, 0>>]

\* whether the int expression width * height * 4 overflows
SizeOverflows(w, h) ==
    MulOverflows(w, h) \/ MulOverflows(MulWrap(w, h), 4)

\* width * height * 4 as the 32-bit multiplications give it
ByteCount(w, h) == MulWrap(MulWrap(w, h), 4)

\* name, width and height of the image, and the array. The sizes of the
\* model keep round(...) within int. A signed overflow of the byte count is
\* undefined: the build wraps, or traps (-ftrapv). A negative int converts
\* to a size_t no allocation serves: bad_alloc, which no handler of main
\* catches.
Allocate ==
    /\ pc = "alloc" /\ exit = "running"
    /\ IF image.bad \cap {"name", "width", "height"} # {}
       THEN /\ CatchJson
            /\ UNCHANGED <<pc, canvas>>
       ELSE LET w == Round(image.width, resolution.width)
                h == Round(image.height, resolution.height)
            IN  \E overflow \in {"wraps", "traps"} :
                   IF \/ SizeOverflows(w, h) /\ overflow = "traps"
                      \/ ByteCount(w, h) < 0
                   THEN /\ Abort
                        /\ UNCHANGED <<pc, canvas>>
                   ELSE /\ width' = w
                        /\ height' = h
                        /\ allocBytes' = ByteCount(w, h)
                        /\ output' = ZeroArray(ByteCount(w, h))
                        /\ pc' = "fill"
                        /\ UNCHANGED <<exit, stderr, backgroundColour, el, rects>>
    /\ UNCHANGED <<input, resolutions, img, res, dirs, written>>

\* the array after the loop over idx < width * height
Filled(buf, count, c) ==
    [k \in DOMAIN buf |-> IF k < count THEN c ELSE buf[k]]

\* the background colour, the fill, and image.at("elements") of the loop
\* that follows. The loop writes width * height pixels, whatever the array
\* holds: when that is more than the array has, it is at least 2^30 pixels
\* more, and the loop runs into unmapped memory.
FillBackground ==
    /\ pc = "fill" /\ exit = "running"
    /\ IF "background" \in image.bad
       THEN /\ CatchJson
            /\ UNCHANGED <<pc, canvas>>
       ELSE \E parsed \in parseColour(image.background) :
               IF parsed.kind = "throw"
               THEN /\ CatchRuntime("invalid colour")
                    /\ UNCHANGED <<pc, canvas>>
               ELSE IF parsed.kind = "abort"
               THEN /\ Abort
                    /\ UNCHANGED <<pc, canvas>>
               ELSE LET count == MulWrap(width, height)
                    IN  IF ULess(allocBytes \div 4, count)
                        THEN /\ Crash
                             /\ UNCHANGED <<pc, canvas>>
                        ELSE /\ backgroundColour' = parsed.colour
                             /\ output' = Filled(output, count, parsed.colour)
                             /\ el' = 1
                             /\ rects' = <<>>
                             /\ UNCHANGED <<width, height, allocBytes>>
                             /\ IF "elements" \in image.bad
                                THEN /\ CatchJson
                                     /\ UNCHANGED pc
                                ELSE /\ pc' = "paint"
                                     /\ UNCHANGED <<exit, stderr>>
    /\ UNCHANGED <<input, resolutions, img, res, dirs, written>>

\* size_t s = round(...): a negative double has no size_t (undefined)
ToSizeT(v, build) ==
    IF v >= 0 THEN v
    ELSE IF build = "x86-64" THEN v
    ELSE 0

\* min(static_cast<int>(start + round(...)), dim), the sum being a double:
\* a start of 2^63 or more makes a sum no int holds (undefined)
EndCoord(start, size, dim, build) ==
    LET sum == IF start >= 0 THEN start + size
               ELSE IF build = "x86-64" THEN IntMin
               ELSE IntMax
    IN  Min(sum, dim)

\* startX, endX, startY, endY of a rectangle on a canvas w by h
Rectangle(e, w, h, build) ==
    LET sx == ToSizeT(Round(e.x, w), build)
        sy == ToSizeT(Round(e.y, h), build)
    IN  [startX |-> sx, endX |-> EndCoord(sx, Round(e.width, w), w, build),
         startY |-> sy, endY |-> EndCoord(sy, Round(e.height, h), h, build)]

\* whether either loop of the rectangle has no iteration
Empty(r) == ~ULess(r.startX, r.endX) \/ ~ULess(r.startY, r.endY)

\* the pixels (y * width + x) the two loops write
Indices(r, w) ==
    {y * w + x : x \in r.startX .. r.endX - 1, y \in r.startY .. r.endY - 1}

\* whether the loops leave an array of cap pixels. An end of 2^63 or more
\* (a negative int converted to size_t) makes a loop run over at least 2^31
\* pixels or rows, which no array of the program holds. Otherwise the last
\* pixel written, (endY - 1) * w + endX - 1, is the largest; w >= endX > 0.
RunsOff(r, w, cap) ==
    /\ ~Empty(r)
    /\ \/ r.endX < 0
       \/ r.endY < 0
       \/ r.endY - 1 > (cap - r.endX) \div w

\* Painted with a colour that is not opaque left unpainted
PaintedOpaqueOnly(buf, r, w, c) ==
    IF Empty(r) \/ c[4] < 255 THEN buf
    ELSE [k \in DOMAIN buf |-> IF k \in Indices(r, w) THEN c ELSE buf[k]]

\* the array after the loops of a rectangle that stays inside it
Painted(buf, r, w, c) ==
    IF Empty(r) THEN buf
    ELSE [k \in DOMAIN buf |-> IF k \in Indices(r, w) THEN c ELSE buf[k]]

\* Supported with every type taken for a rectangle
SupportedAny(t) == TRUE

\* if (elementType == "rectangle")
Supported(t) == t = "rectangle"

\* one element of the image
PaintElement ==
    /\ pc = "paint" /\ exit = "running"
    /\ el <= Len(image.elements)
    /\ LET element == image.elements[el]
       IN  IF "type" \in element.bad
           THEN /\ CatchJson
                /\ UNCHANGED <<pc, canvas>>
           ELSE IF ~Supported(element.type)
           THEN /\ CatchRuntime("invalid type")
                /\ UNCHANGED <<pc, canvas>>
           ELSE IF "colour" \in element.bad
           THEN /\ CatchJson
                /\ UNCHANGED <<pc, canvas>>
           ELSE \E parsed \in parseColour(element.colour), build \in Builds :
                   IF parsed.kind = "throw"
                   THEN /\ CatchRuntime("invalid colour")
                        /\ UNCHANGED <<pc, canvas>>
                   ELSE IF parsed.kind = "abort"
                   THEN /\ Abort
                        /\ UNCHANGED <<pc, canvas>>
                   ELSE IF element.bad \cap {"x", "width", "y", "height"} # {}
                   THEN /\ CatchJson
                        /\ UNCHANGED <<pc, canvas>>
                   ELSE LET r == Rectangle(element, width, height, build)
                        IN  IF RunsOff(r, width, allocBytes \div 4)
                            THEN /\ Crash
                                 /\ rects' = Append(rects, r)
                                 /\ UNCHANGED <<pc, width, height, allocBytes,
                                                output, backgroundColour, el>>
                            ELSE /\ output' = Painted(output, r, width,
                                                      parsed.colour)
                                 /\ rects' = Append(rects, r)
                                 /\ el' = el + 1
                                 /\ UNCHANGED <<pc, exit, stderr, width, height,
                                                allocBytes, backgroundColour>>
    /\ UNCHANGED <<input, resolutions, img, res, dirs, written>>

\* whether the encoder reads past the array: it reads width * height pixels
ReadsOff(w, h, bytes) ==
    /\ w > 0
    /\ h > 0
    /\ \/ MulOverflows(w, h)
       \/ w * h > bytes \div 4

\* stbi_write_tga(outputPath, width, height, 4, output.get()), and the step
\* of the loops. The encoder opens the file before it looks at the sizes.
WriteFile ==
    /\ pc = "paint" /\ exit = "running"
    /\ el > Len(image.elements)
    /\ written' = Append(written,
                         [img |-> img, res |-> res,
                          path |-> <<Folder(resolution), image.name>>,
                          width |-> width, height |-> height,
                          background |-> backgroundColour,
                          rects |-> rects, pixels |-> output])
    /\ IF ReadsOff(width, height, allocBytes)
       THEN /\ Crash
            /\ UNCHANGED <<pc, img, res, canvas>>
       ELSE LET next == NextPair(img, res, Len(file.images), Len(resolutions))
            IN  /\ width' = 0
                /\ height' = 0
                /\ allocBytes' = 0
                /\ output' = <<>>
                /\ backgroundColour' = <<0, 0, 0, 0>>
                /\ el' = 1
                /\ rects' = <<>>
                /\ IF next = <<0, 0>>
                   THEN /\ Finish
                        /\ pc' = "end"
                        /\ UNCHANGED <<img, res>>
                   ELSE /\ pc' = "folder"
                        /\ img' = next[1]
                        /\ res' = next[2]
                        /\ UNCHANGED <<exit, stderr>>
    /\ UNCHANGED <<input, resolutions, dirs>>

Next ==
    \/ UsageError
    \/ OpenError
    \/ ParseError
    \/ ReadDescription
    \/ MakeFolder
    \/ Allocate
    \/ FillBackground
    \/ PaintElement
    \/ WriteFile

Spec == Init /\ [][Next]_vars

----------------------------------------------------------------------------
(* Properties *)

Terminated == exit # "running"

\* the run read its description: the command line and the file were in order
Started == input.argc = 2 /\ input.readable /\ input.wellFormed

\* the messages of the fatal processing errors
ProcessingErrors ==
    {"error: invalid description", "error: invalid colour",
     "error: invalid type", "error: filesystem error",
     "error: could not create output folder"}

\* the messages of the violations of the description
ValidationErrors ==
    {"error: invalid description", "error: invalid colour",
     "error: invalid type"}

\* C1: the exit code is 0 only when the whole run succeeds (nothing was
\* reported on standard error); a run that reports a usage error, an
\* unreadable file, malformed input or a fatal processing error returns 1.
C1_ExitCode ==
    /\ exit = "0" => stderr = <<>>
    /\ \A k \in DOMAIN stderr :
          stderr[k] \in ProcessingErrors \cup
                        {"usage", "error: could not open",
                         "error: could not parse"}
          => exit = "1"

\* C2: validation is fail-fast over the whole description: a run that
\* reports a missing or mistyped field, an invalid colour or an
\* unrecognised element type has written no file at all.
C2_FailFast ==
    (\E k \in DOMAIN stderr : stderr[k] \in ValidationErrors)
    => written = <<>>

\* C3 as claimed: resolutions are the outer loop, so no file is written for
\* a later resolution before a file for an earlier one.
C3_ResolutionsOuter ==
    \A k, l \in DOMAIN written :
        k < l => written[k].res <= written[l].res

\* C3 as the program has it: images are the outer loop and resolutions the
\* inner one. The files are written in the order of (image, resolution):
\* every file of an image before any file of a later image, and the files
\* of one image in the order of the resolutions.
C3_ImagesOuter ==
    \A k, l \in DOMAIN written :
        k < l =>
            \/ written[k].img < written[l].img
            \/ /\ written[k].img = written[l].img
               /\ written[k].res < written[l].res

\* two images over two resolutions, all four files written
C3_Witness ==
    /\ Len(written) = 4
    /\ \E k, l \in DOMAIN written :
          /\ k < l
          /\ written[k].img < written[l].img
          /\ written[k].res > written[l].res

----------------------------------------------------------------------------
(* C4: the colour texts *)

\* the value of a hexit, upper and lower case alike
HexitValue(c) ==
    IF c \in Ch0 .. Ch9 THEN c - Ch0
    ELSE IF c \in Cha .. Chf THEN 10 + (c - Cha)
    ELSE 10 + (c - ChA)

\* the text without its one optional leading '#'
Digits(t) == IF t # <<>> /\ t[1] = Hash THEN SubSeq(t, 2, Len(t)) ELSE t

\* the texts the claim gives a colour: 3, 4, 6 or 8 hexits after the '#'
IsColourText(t) ==
    /\ Len(Digits(t)) \in {3, 4, 6, 8}
    /\ \A k \in 1 .. Len(Digits(t)) : Digits(t)[k] \in HexChars

\* the colour the claim gives such a text
ColourOf(t) ==
    LET d == Digits(t)
        short(k) == HexitValue(d[k]) * 17
        long(k) == HexitValue(d[2 * k - 1]) * 16 + HexitValue(d[2 * k])
    IN  IF Len(d) = 3 THEN <<short(1), short(2), short(3), 255>>
        ELSE IF Len(d) = 4 THEN <<short(1), short(2), short(3), short(4)>>
        ELSE IF Len(d) = 6 THEN <<long(1), long(2), long(3), 255>>
        ELSE <<long(1), long(2), long(3), long(4)>>

\* the background of the image is a text, and the image has its elements
ReadsBackground ==
    /\ pc \in {"fill", "paint"}
    /\ image.bad \cap {"background", "elements"} = {}

\* C4: parseColour returns the colour of every text of 3, 4, 6 or 8 hexits
\* (after one optional '#'), and for every other text, the empty one
\* included, throws the invalid-colour error and returns no colour. Here
\* for the background: once the fill is done the colour is the text's, and
\* a run that stops at the background of a text that is no colour stops
\* with the invalid-colour error.
C4_ParseColour ==
    ReadsBackground =>
        /\ pc = "paint" =>
              /\ IsColourText(image.background)
              /\ backgroundColour = ColourOf(image.background)
        /\ (pc = "fill" /\ ~IsColourText(image.background) /\ Terminated)
           => /\ exit = "0"
              /\ stderr = <<"error: invalid colour">>

\* parseColour on the texts that are not empty: as C4 has it
C4_NonEmptyTexts ==
    (ReadsBackground /\ image.background # <<>>) => C4_ParseColour

\* a text of eight hexits after '#' was parsed, and one of three
C4_NonEmptyWitness ==
    /\ pc = "paint"
    /\ Len(image.background) = 9
    /\ backgroundColour[4] # 255

----------------------------------------------------------------------------
(* C5, C10, C6: the rectangles *)

\* the element is a rectangle with all its keys and a colour
IsRectangle(e) ==
    /\ e.bad = {}
    /\ e.type = "rectangle"
    /\ IsColourText(e.colour)

\* the rectangle of an element on a canvas w by h, in the integers:
\* start = round(pos * dim), end = min(start + round(size * dim), dim)
ClampedRect(e, w, h) ==
    LET sx == Round(e.x, w)
        sy == Round(e.y, h)
    IN  [startX |-> sx, endX |-> Min(sx + Round(e.width, w), w),
         startY |-> sy, endY |-> Min(sy + Round(e.height, h), h)]

\* the pixels of the canvas inside a rectangle, as indices of the array
PixelsOf(r, w, h) ==
    {y * w + x : x \in {x \in 0 .. w - 1 : r.startX <= x /\ x < r.endX},
                 y \in {y \in 0 .. h - 1 : r.startY <= y /\ y < r.endY}}

\* C5: painting a rectangle, whatever its x, y, width and height, writes
\* only pixels (x, y) with 0 <= x < width and 0 <= y < height: each
\* rectangle painted (on a canvas of positive sizes) is empty or lies within
\* the canvas.
C5_WritesInside ==
    (pc = "paint" /\ width > 0 /\ height > 0) =>
        \A k \in DOMAIN rects :
            \/ Empty(rects[k])
            \/ /\ 0 <= rects[k].startX /\ 0 <= rects[k].endX
               /\ rects[k].endX <= width
               /\ 0 <= rects[k].startY /\ 0 <= rects[k].endY
               /\ rects[k].endY <= height

\* the next element is a rectangle, on a canvas of positive sizes
PaintsRectangle ==
    /\ pc = "paint" /\ exit = "running"
    /\ width > 0 /\ height > 0
    /\ el <= Len(image.elements)
    /\ IsRectangle(image.elements[el])

\* C10: painting a rectangle changes exactly the pixels of
\* [startX, endX) x [startY, endY), with start = round(pos * dim) and
\* end = min(start + round(size * dim), dim); when start >= end on either
\* axis no pixel is changed and no error is raised.
C10_PaintsExactly ==
    [][PaintsRectangle =>
        LET e == image.elements[el]
            area == PixelsOf(ClampedRect(e, width, height), width, height)
        IN  /\ exit' = "running"
            /\ output' = [k \in DOMAIN output |->
                            IF k \in area THEN ColourOf(e.colour)
                            ELSE output[k]]]_vars

----------------------------------------------------------------------------
(* C7, C8: the sizes *)

\* the pair has a positive resolution, positive scale factors and a
\* background that is a colour
PositivePair ==
    /\ pc \in {"alloc", "fill", "paint"}
    /\ image.bad = {}
    /\ resolution.width > 0 /\ resolution.height > 0
    /\ image.width > 0 /\ image.height > 0
    /\ IsColourText(image.background)

\* C7: for a positive resolution (W, H) and positive scale factors (w, h)
\* the array has exactly round(w*W) * round(h*H) * 4 bytes and each of its
\* round(w*W) * round(h*H) pixels is the background before the elements are
\* painted, also when the product does not fit an int: the allocation and
\* the fill do not end the run, and the array they leave is that one.
C7_BufferSize ==
    PositivePair =>
        LET w == Round(image.width, resolution.width)
            h == Round(image.height, resolution.height)
        IN  /\ pc \in {"alloc", "fill"} => ~Terminated
            /\ pc \in {"fill", "paint"} =>
                  /\ ~SizeOverflows(w, h)
                  /\ allocBytes = w * h * 4
                  /\ DOMAIN output = 0 .. w * h - 1
            /\ (pc = "paint" /\ rects = <<>>) =>
                  \A k \in DOMAIN output : output[k] = backgroundColour

\* the list of resolutions is empty, or holds a size that is not positive
RejectedResolutions ==
    /\ Started
    /\ file.bad = {}
    /\ ~ResolutionsThrow(file.resolutions)
    /\ \/ file.resolutions = <<>>
       \/ \E k \in DOMAIN file.resolutions :
             \/ file.resolutions[k].width <= 0
             \/ file.resolutions[k].height <= 0

\* C8: a description whose list of resolutions is empty, or holds a width
\* or a height that is not positive, is rejected: the run writes no file
\* and ends with an error reported.
C8_ResolutionsChecked ==
    RejectedResolutions =>
        /\ written = <<>>
        /\ Terminated => stderr # <<>>

----------------------------------------------------------------------------
(* C6: painter's order *)

\* the rectangle of element j of a written file: as the integers give it
\* when its start is not negative; for a negative start (which has no
\* size_t) the values the program's conversions produced
RectOf(f, j) ==
    LET e == file.images[f.img].elements[j]
    IN  IF e.x >= 0 /\ e.y >= 0 THEN ClampedRect(e, f.width, f.height)
        ELSE f.rects[j]

\* whether element j of a written file covers the pixel (x, y)
Covers(f, j, x, y) ==
    LET e == file.images[f.img].elements[j]
        r == RectOf(f, j)
    IN  IF e.x >= 0 /\ e.y >= 0
        THEN /\ r.startX <= x /\ x < r.endX
             /\ r.startY <= y /\ y < r.endY
        ELSE /\ ~ULess(x, r.startX) /\ ULess(x, r.endX)
             /\ ~ULess(y, r.startY) /\ ULess(y, r.endY)

\* the colour painter's order gives pixel k of a written file: that of the
\* last element covering it, or the background
PainterColour(f, k) ==
    LET im == file.images[f.img]
        covering == IF f.width > 0
                    THEN {j \in 1 .. Len(im.elements) :
                             Covers(f, j, k % f.width, k \div f.width)}
                    ELSE {}
    IN  IF covering = {} THEN ColourOf(im.background)
        ELSE ColourOf(im.elements[CHOOSE j \in covering :
                                     \A i \in covering : i <= j].colour)

----------------------------------------------------------------------------
(* C9: element types *)

\* the image has an element whose type is not "rectangle"
HasOtherShape(im) ==
    /\ "elements" \notin im.bad
    /\ \E j \in DOMAIN im.elements :
          /\ "type" \notin im.elements[j].bad
          /\ im.elements[j].type # "rectangle"

\* the run stopped at an element whose type is not "rectangle"
StoppedAtOtherShape ==
    /\ pc = "paint"
    /\ Terminated
    /\ el <= Len(image.elements)
    /\ "type" \notin image.elements[el].bad
    /\ image.elements[el].type # "rectangle"

\* C9: an image with an element whose type is not "rectangle", at any
\* place of its list, makes the run fail with the unsupported-type error,
\* and no file is written for that image at any resolution: no file written
\* is of such an image; the loop over the elements never passes such an
\* element, and the run that reaches one stops there with the error; so no
\* run over at least one resolution ends without an error when an image
\* has such an element.
C9_UnsupportedType ==
    /\ \A n \in DOMAIN written : ~HasOtherShape(file.images[written[n].img])
    /\ pc = "paint" =>
          \A j \in 1 .. el - 1 : image.elements[j].type = "rectangle"
    /\ StoppedAtOtherShape => stderr = <<"error: invalid type">>
    /\ (pc = "end" /\ stderr = <<>> /\ resolutions # <<>>) =>
          \A i \in DOMAIN file.images : ~HasOtherShape(file.images[i])

\* a run over two resolutions stopped at an ellipse that follows a
\* rectangle, in its second image, the files of the first being written
C9_Witness ==
    /\ StoppedAtOtherShape
    /\ el = 2
    /\ img = 2
    /\ Len(resolutions) = 2
    /\ Len(written) = 2
    /\ stderr = <<"error: invalid type">>

----------------------------------------------------------------------------
(* What holds of C7 and C10 where the program's arithmetic is defined *)

\* C7 for the sizes whose byte count fits an int
SizesThatFit ==
    (/\ PositivePair
     /\ ~SizeOverflows(Round(image.width, resolution.width),
                       Round(image.height, resolution.height)))
    => C7_BufferSize

\* C10 for the rectangles whose start and end are not negative, on a canvas
\* whose byte count fits an int
NonNegativeRectangles ==
    [][(/\ PaintsRectangle
        /\ ~SizeOverflows(width, height)
        /\ LET r == ClampedRect(image.elements[el], width, height)
           IN  r.startX >= 0 /\ r.startY >= 0 /\ r.endX >= 0 /\ r.endY >= 0)
       =>
        LET e == image.elements[el]
            area == PixelsOf(ClampedRect(e, width, height), width, height)
        IN  /\ exit' = "running"
            /\ output' = [k \in DOMAIN output |->
                            IF k \in area THEN ColourOf(e.colour)
                            ELSE output[k]]]_vars

=============================================================================
